---------------------------- MODULE Spec2Model ----------------------------
(***************************************************************************)
(* A model of the revid_clone package: the Scene/Project records, the      *)
(* deterministic ScriptGenerator and StoryboardDesigner, the filesystem    *)
(* backed ProjectStorage and the ProjectService lifecycle                  *)
(* (create -> script -> storyboard -> preview).                            *)
(*                                                                         *)
(* Representation.                                                         *)
(*   - A Python str is a sequence of tokens (TLA+ strings): a word, or one *)
(*     of the separator tokens " ", "\n", ".", ":".  Concatenation is \o.  *)
(*   - Optional[T] is a sequence of length at most one: None is <<>>.      *)
(*   - A dict is a function from keys to values; the JSON text written by  *)
(*     json.dumps(..., sort_keys=True) is the sequence of <<key, value>>   *)
(*     pairs in key order.                                                 *)
(*   - A path is [dir, name]; name is a sequence of characters.            *)
(***************************************************************************)
EXTENDS Integers, Sequences, FiniteSets, TLC

(***************************************************************************)
(* Bounds of the model.                                                    *)
(***************************************************************************)
\* Project values the caller keeps in variables at any one time.
MaxHeld == 1
\* Times design_storyboard is applied on top of an already designed scene list.
MaxRestyle == 1
\* Largest duration_minutes a project is created with in SpecGen.
MaxDuration == 100
\* Longest enumerated brief, in tokens, and largest duration_minutes in SpecScript.
MaxBriefLen == 3
MaxScriptDuration == 4

(***************************************************************************)
(* Text helpers (str methods used by ai_engines.py / project_service.py).  *)
(***************************************************************************)
None == <<>>
Some(x) == <<x>>

IsSpace(tok) == tok \in {" ", "\n"}

\* str.strip(): drop leading and trailing whitespace.
RECURSIVE LStrip(_)
LStrip(text) ==
    IF text # <<>> /\ IsSpace(Head(text)) THEN LStrip(Tail(text)) ELSE text

RECURSIVE RStrip(_)
RStrip(text) ==
    IF text # <<>> /\ IsSpace(text[Len(text)])
    THEN RStrip(SubSeq(text, 1, Len(text) - 1))
    ELSE text

Strip(text) == LStrip(RStrip(text))

\* str.replace(old, new) for single-token old/new.
Replace(text, old, new) ==
    [i \in 1..Len(text) |-> IF text[i] = old THEN new ELSE text[i]]

\* str.split(sep): the segments between occurrences of sep (always >= 1).
RECURSIVE SplitOn(_, _, _)
SplitOn(text, sep, cur) ==
    IF text = <<>> THEN <<cur>>
    ELSE IF Head(text) = sep THEN <<cur>> \o SplitOn(Tail(text), sep, <<>>)
    ELSE SplitOn(Tail(text), sep, Append(cur, Head(text)))

Split(text, sep) == SplitOn(text, sep, <<>>)

\* str.split(): the whitespace separated words.
Words(text) == SelectSeq(text, LAMBDA tok : ~IsSpace(tok))

\* sep.join(items) for a sequence of token sequences.
RECURSIVE Join(_, _)
Join(items, sep) ==
    IF items = <<>> THEN <<>>
    ELSE IF Len(items) = 1 THEN items[1]
    ELSE items[1] \o sep \o Join(Tail(items), sep)

\* seq[:n]
Take(seq, n) == SubSeq(seq, 1, IF Len(seq) < n THEN Len(seq) ELSE n)

Max(a, b) == IF a >= b THEN a ELSE b
Min(a, b) == IF a <= b THEN a ELSE b

\* textwrap.fill(text, 90) / textwrap.wrap(text, 80) joined by " ": whitespace
\* characters become spaces and the text is cut into lines of at most the
\* width.  Every text of the model is shorter than either width, so no line
\* break is inserted.
Fill(text) == Replace(text, "\n", " ")

(***************************************************************************)
(* ai_engines.py                                                           *)
(***************************************************************************)
\* _story_arc_templates: the six arcs, cycled.
Arcs ==
    << "Hook the audience with a relatable question",
       "Present the core promise",
       "Deliver the first key insight",
       "Share the second key insight",
       "Explain how to put the advice into practice",
       "Close with a memorable takeaway" >>

\* next(template) on the index-th draw (index from 0) of itertools.cycle(arcs).
ArcAt(index) == (index % Len(Arcs)) + 1

\* arc.lower()
ArcLower ==
    << "hook the audience with a relatable question",
       "present the core promise",
       "deliver the first key insight",
       "share the second key insight",
       "explain how to put the advice into practice",
       "close with a memorable takeaway" >>

\* ' '.join(word.capitalize() for word in arc.split()[0:3])
ArcKeywords ==
    << "Hook The Audience", "Present The Core", "Deliver The First",
       "Share The Second", "Explain How To", "Close With A" >>

\* _scene_title(index, arc)
SceneTitle(index, k) == <<"Scene ", ToString(index + 1), ":", " ", ArcKeywords[k]>>

\* _mood_from_arc(arc): first keyword found in arc.lower().
MoodFromArc(k) ==
    CASE k = 1 -> "energetic"
      [] k = 2 -> "confident"
      [] k \in {3, 4} -> "informative"
      [] k = 5 -> "encouraging"
      [] OTHER -> "uplifting"

\* _voiceover_from_summary(summary)
VoiceoverFromSummary(summary) == Fill(summary)

\* _thumbnail_from_arc(arc, sentence)
ThumbnailFromArc(k, sentence) ==
    Strip(<<ArcLower[k], " ", "featuring", " ">>
          \o Join([i \in 1..Len(Take(Words(sentence), 6)) |->
                      <<Take(Words(sentence), 6)[i]>>], <<" ">>))

FallbackSentence ==
    <<"Introduce", " ", "the", " ", "topic", " ", "in", " ", "an", " ",
      "engaging", " ", "manner">>

\* Variant of NormalizeSentences: empty segments are not filtered out.
NormalizeSentencesKeepEmpty(text) ==
    LET segments == Split(Replace(text, "\n", " "), ".")
        stripped == [i \in 1..Len(segments) |-> Strip(segments[i])]
    IN  IF stripped = <<>> THEN <<FallbackSentence>> ELSE Take(stripped, 10)

\* _normalize_sentences(text)
NormalizeSentences(text) ==
    LET segments == Split(Replace(text, "\n", " "), ".")
        stripped == [i \in 1..Len(segments) |-> Strip(segments[i])]
        sentences == SelectSeq(stripped, LAMBDA s : s # <<>>)
    IN  IF sentences = <<>> THEN <<FallbackSentence>> ELSE Take(sentences, 10)

\* Variant of CeilOneAndHalf: rounds down instead of up.
FloorOneAndHalf(d) == (3 * d) \div 2

\* math.ceil(duration_minutes * 1.5) for an integer duration_minutes.
CeilOneAndHalf(d) == IF (3 * d) % 2 = 0 THEN (3 * d) \div 2 ELSE ((3 * d) \div 2) + 1

\* num_scenes = max(3, min(6, math.ceil(duration_minutes * 1.5)))
NumScenes(duration_minutes) == Max(3, Min(6, CeilOneAndHalf(duration_minutes)))

\* Scene(index=..., title=..., ...): aspect_ratio keeps the dataclass default.
NewScene(index, brief, sentences) ==
    LET k == ArcAt(index)
        sentence == IF sentences # <<>>
                    THEN sentences[(index % Len(sentences)) + 1]
                    ELSE brief
        summary == Fill(<<Arcs[k], ":", " ">> \o sentence)
    IN  [ index |-> index,
          title |-> SceneTitle(index, k),
          summary |-> summary,
          voiceover |-> Some(VoiceoverFromSummary(summary)),
          mood |-> Some(MoodFromArc(k)),
          aspect_ratio |-> "16:9",
          thumbnail_description |-> Some(ThumbnailFromArc(k, sentence)) ]

\* ScriptGenerator.generate(brief, duration_minutes=...)
Generate(brief, duration_minutes) ==
    LET sentences == NormalizeSentences(brief)
    IN  [i \in 1..NumScenes(duration_minutes) |-> NewScene(i - 1, brief, sentences)]

\* StoryboardDesigner._shot_suggestion(index)
ShotOptions ==
    << "wide establishing", "medium action", "close-up reaction",
       "dynamic tracking", "graphic overlay" >>

ShotSuggestion(index) == ShotOptions[(index % Len(ShotOptions)) + 1]

\* The body of the loop of StoryboardDesigner.design for one scene.
DesignScene(scene) ==
    LET thumbnail == IF scene.thumbnail_description # None
                        /\ scene.thumbnail_description[1] # <<>>
                     THEN scene.thumbnail_description[1]
                     ELSE <<>>
        extended == thumbnail \o <<" ", "|", " ", "Shot suggestion:", " ",
                                   ShotSuggestion(scene.index)>>
    IN  [ index |-> scene.index,
          title |-> scene.title,
          summary |-> scene.summary,
          voiceover |-> scene.voiceover,
          mood |-> scene.mood,
          aspect_ratio |-> IF scene.index % 2 = 0 THEN "16:9" ELSE "9:16",
          thumbnail_description |-> Some(Strip(extended)) ]

\* StoryboardDesigner.design(scenes)
Design(scenes) == [i \in 1..Len(scenes) |-> DesignScene(scenes[i])]


(***************************************************************************)
(* models.py and the JSON text written by storage.py / project_service.py  *)
(***************************************************************************)
SceneRequired == {"index", "title", "summary"}
SceneFields ==
    SceneRequired \cup {"voiceover", "mood", "aspect_ratio", "thumbnail_description"}

ProjectRequired ==
    {"project_id", "title", "brief", "tone", "target_audience", "duration_minutes"}
ProjectFields ==
    ProjectRequired \cup
    {"created_at", "script_summary", "scenes", "storyboard_ready", "preview_ready"}

\* Scene.to_dict
SceneToDict(scene) ==
    [ index |-> scene.index,
      title |-> scene.title,
      summary |-> scene.summary,
      voiceover |-> scene.voiceover,
      mood |-> scene.mood,
      aspect_ratio |-> scene.aspect_ratio,
      thumbnail_description |-> scene.thumbnail_description ]

\* Variant of ProjectToDict: script_summary is left out of the payload.
ProjectToDictNoSummary(project) ==
    [ project_id |-> project.project_id,
      title |-> project.title,
      brief |-> project.brief,
      tone |-> project.tone,
      target_audience |-> project.target_audience,
      duration_minutes |-> project.duration_minutes,
      created_at |-> project.created_at,
      scenes |-> [i \in 1..Len(project.scenes) |-> SceneToDict(project.scenes[i])],
      storyboard_ready |-> project.storyboard_ready,
      preview_ready |-> project.preview_ready ]

\* Project.to_dict
ProjectToDict(project) ==
    [ project_id |-> project.project_id,
      title |-> project.title,
      brief |-> project.brief,
      tone |-> project.tone,
      target_audience |-> project.target_audience,
      duration_minutes |-> project.duration_minutes,
      created_at |-> project.created_at,
      script_summary |-> project.script_summary,
      scenes |-> [i \in 1..Len(project.scenes) |-> SceneToDict(project.scenes[i])],
      storyboard_ready |-> project.storyboard_ready,
      preview_ready |-> project.preview_ready ]

\* Every key of the documents this package writes, in the order sort_keys=True
\* gives them (code point order).
SortedKeys ==
    << "aspect_ratio", "assets_root", "brief", "created_at", "duration_minutes",
       "index", "mood", "preview_ready", "project_id", "render_metadata",
       "rendered_with", "scenes", "script_summary", "storyboard_ready", "summary",
       "target_audience", "thumbnail_description", "title", "tone", "voiceover" >>

\* json.dumps(obj, sort_keys=True) of a flat dict: its items in key order.
DumpsFlat(dict) ==
    LET keys == SelectSeq(SortedKeys, LAMBDA k : k \in DOMAIN dict)
    IN  [i \in 1..Len(keys) |-> <<keys[i], dict[keys[i]]>>]

\* json.dumps of a dict whose "scenes" is a list of dicts and whose
\* "render_metadata", when present, is a dict.
Dumps(dict) ==
    LET keys == SelectSeq(SortedKeys, LAMBDA k : k \in DOMAIN dict)
        value(k) ==
            CASE k = "scenes" ->
                   [i \in 1..Len(dict[k]) |-> DumpsFlat(dict[k][i])]
              [] k = "render_metadata" -> DumpsFlat(dict[k])
              [] OTHER -> dict[k]
    IN  [i \in 1..Len(keys) |-> <<keys[i], value(keys[i])>>]

\* json.loads of a flat object.
LoadsFlat(text) ==
    [k \in {text[i][1] : i \in 1..Len(text)} |->
        text[CHOOSE i \in 1..Len(text) : text[i][1] = k][2]]

\* json.loads of a document written by Dumps.
Loads(text) ==
    LET flat == LoadsFlat(text)
    IN  [k \in DOMAIN flat |->
            CASE k = "scenes" -> [i \in 1..Len(flat[k]) |-> LoadsFlat(flat[k][i])]
              [] k = "render_metadata" -> LoadsFlat(flat[k])
              [] OTHER -> flat[k]]

\* dict.get(key, default)
Get(dict, key, default) == IF key \in DOMAIN dict THEN dict[key] ELSE default

\* Scene(**scene_dict) accepts exactly the dataclass fields.
SceneArgsOk(dict) == DOMAIN dict \subseteq SceneFields /\ SceneRequired \subseteq DOMAIN dict

SceneFromDict(dict) ==
    [ index |-> dict.index,
      title |-> dict.title,
      summary |-> dict.summary,
      voiceover |-> Get(dict, "voiceover", None),
      mood |-> Get(dict, "mood", None),
      aspect_ratio |-> Get(dict, "aspect_ratio", "16:9"),
      thumbnail_description |-> Get(dict, "thumbnail_description", None) ]

\* Whether Project.from_dict(payload) returns (a TypeError otherwise).
FromDictOk(payload) ==
    /\ \A i \in 1..Len(Get(payload, "scenes", <<>>)) : SceneArgsOk(payload.scenes[i])
    /\ DOMAIN payload \cup {"scenes"} \subseteq ProjectFields
    /\ ProjectRequired \subseteq DOMAIN payload

\* Project.from_dict(payload); now is the clock the created_at default reads.
ProjectFromDict(payload, now) ==
    LET dicts == Get(payload, "scenes", <<>>)
    IN  [ project_id |-> payload.project_id,
          title |-> payload.title,
          brief |-> payload.brief,
          tone |-> payload.tone,
          target_audience |-> payload.target_audience,
          duration_minutes |-> payload.duration_minutes,
          created_at |-> Get(payload, "created_at", now),
          script_summary |-> Get(payload, "script_summary", None),
          scenes |-> [i \in 1..Len(dicts) |-> SceneFromDict(dicts[i])],
          storyboard_ready |-> Get(payload, "storyboard_ready", FALSE),
          preview_ready |-> Get(payload, "preview_ready", FALSE) ]

(***************************************************************************)
(* storage.py                                                              *)
(***************************************************************************)
\* Code points of the characters file names are made of.
Ord(c) ==
    CASE c = "." -> 46 [] c = "0" -> 48 [] c = "1" -> 49 [] c = "2" -> 50
      [] c = "_" -> 95 [] c = "a" -> 97 [] c = "b" -> 98 [] c = "c" -> 99
      [] c = "e" -> 101 [] c = "i" -> 105 [] c = "j" -> 106 [] c = "n" -> 110
      [] c = "o" -> 111 [] c = "p" -> 112 [] c = "r" -> 114 [] c = "s" -> 115
      [] c = "v" -> 118 [] c = "w" -> 119

\* str < str
RECURSIVE LexLess(_, _)
LexLess(a, b) ==
    IF b = <<>> THEN FALSE
    ELSE IF a = <<>> THEN TRUE
    ELSE IF Head(a) = Head(b) THEN LexLess(Tail(a), Tail(b))
    ELSE Ord(Head(a)) < Ord(Head(b))

\* sorted(names)
RECURSIVE SortedNames(_)
SortedNames(names) ==
    IF names = {} THEN <<>>
    ELSE LET least == CHOOSE n \in names : \A m \in names \ {n} : LexLess(n, m)
         IN  <<least>> \o SortedNames(names \ {least})

DotJson == <<".", "j", "s", "o", "n">>
PreviewJson == <<"_", "p", "r", "e", "v", "i", "e", "w">> \o DotJson

EndsWith(name, suffix) ==
    /\ Len(name) >= Len(suffix)
    /\ SubSeq(name, Len(name) - Len(suffix) + 1, Len(name)) = suffix

\* ProjectStorage.path_for(project_id)
PathFor(project_id) == [dir |-> "home", name |-> project_id \o DotJson]

\* Path.write_text(text): fails when the parent directory does not exist.
CanWrite(path) == path.dir # "missing"
WriteText(files, path, text) ==
    [q \in DOMAIN files \cup {path} |-> IF q = path THEN text ELSE files[q]]

\* ProjectStorage.save(project)
Save(files, project) ==
    WriteText(files, PathFor(project.project_id), Dumps(ProjectToDict(project)))

\* self.home.glob("*.json"), sorted
GlobJson(files) ==
    SortedNames({q.name : q \in {r \in DOMAIN files :
                                    r.dir = "home" /\ EndsWith(r.name, DotJson)}})

\* Variant of Load: a missing file loads as an empty project instead of failing.
LoadMissingAsEmpty(files, project_id, now) ==
    IF PathFor(project_id) \notin DOMAIN files
    THEN [err |-> "",
          ret |-> Some([ project_id |-> project_id, title |-> "", brief |-> <<>>,
                         tone |-> "", target_audience |-> "", duration_minutes |-> 1,
                         created_at |-> now, script_summary |-> None, scenes |-> <<>>,
                         storyboard_ready |-> FALSE, preview_ready |-> FALSE ])]
    ELSE [err |-> "", ret |-> Some(ProjectFromDict(Loads(files[PathFor(project_id)]), now))]

\* ProjectStorage.load(project_id): [err, ret]
Load(files, project_id, now) ==
    IF PathFor(project_id) \notin DOMAIN files
    THEN [err |-> "NotFound", ret |-> None]
    ELSE LET data == Loads(files[PathFor(project_id)])
         IN  IF FromDictOk(data)
             THEN [err |-> "", ret |-> Some(ProjectFromDict(data, now))]
             ELSE [err |-> "TypeError", ret |-> None]

\* ProjectStorage.list_projects, consumed to its end: the projects yielded in
\* order, up to the first file from_dict rejects.
RECURSIVE ListFrom(_, _, _)
ListFrom(files, names, now) ==
    IF names = <<>> THEN [err |-> "", ret |-> <<>>]
    ELSE LET data == Loads(files[[dir |-> "home", name |-> Head(names)]])
         IN  IF ~FromDictOk(data) THEN [err |-> "TypeError", ret |-> <<>>]
             ELSE LET rest == ListFrom(files, Tail(names), now)
                  IN  [err |-> rest.err,
                       ret |-> <<ProjectFromDict(data, now)>> \o rest.ret]

ListProjects(files, now) == ListFrom(files, GlobJson(files), now)

(***************************************************************************)
(* project_service.py                                                      *)
(***************************************************************************)
\* summary.split(":", 1)[-1]
AfterFirstColon(text) ==
    IF \E i \in 1..Len(text) : text[i] = ":"
    THEN SubSeq(text, (CHOOSE i \in 1..Len(text) :
                          text[i] = ":" /\ \A j \in 1..(i - 1) : text[j] # ":") + 1,
                Len(text))
    ELSE text

\* _summarize_scenes(scenes)
SummarizeScenes(scenes) ==
    Join([i \in 1..Len(scenes) |-> Strip(AfterFirstColon(scenes[i].summary))],
         <<" ", "|", " ">>)

\* _build_preview_payload(project, assets_root=self.storage.home)
BuildPreviewPayload(project) ==
    [ project_id |-> project.project_id,
      title |-> project.title,
      tone |-> project.tone,
      target_audience |-> project.target_audience,
      script_summary |-> project.script_summary,
      scenes |-> [i \in 1..Len(project.scenes) |-> SceneToDict(project.scenes[i])],
      render_metadata |->
          [ duration_minutes |-> project.duration_minutes,
            rendered_with |-> "revid-clone",
            assets_root |-> <<"home", "/", "assets", "/">> \o project.project_id ] ]

\* Project(project_id=..., ...): the remaining fields take the dataclass defaults.
NewProject(project_id, title, brief, tone, target_audience, duration_minutes, now) ==
    [ project_id |-> project_id,
      title |-> title,
      brief |-> brief,
      tone |-> tone,
      target_audience |-> target_audience,
      duration_minutes |-> duration_minutes,
      created_at |-> now,
      script_summary |-> None,
      scenes |-> <<>>,
      storyboard_ready |-> FALSE,
      preview_ready |-> FALSE ]

(* Each service method is an operator from the files before the call and the *)
(* arguments to a record: files (after the call), ret (the returned project), *)
(* arg (the argument object as the call leaves it) and log (the steps taken,  *)
(* in order).                                                                 *)

\* ProjectService.create_project
CreateProject(files, project_id, title, brief, tone, target_audience, duration_minutes, now) ==
    LET project == NewProject(project_id, title, brief, tone, target_audience,
                              duration_minutes, now)
    IN  [files |-> Save(files, project), ret |-> project, log |-> <<"save">>]

\* Variant of GenerateScript: regenerating the scenes resets both readiness flags.
GenerateScriptResetFlags(files, project) ==
    LET scenes == Generate(project.brief, project.duration_minutes)
        summary == SummarizeScenes(scenes)
        updated == [project EXCEPT !.scenes = scenes, !.script_summary = Some(summary),
                                   !.storyboard_ready = FALSE, !.preview_ready = FALSE]
    IN  [ files |-> Save(files, updated), ret |-> updated, arg |-> project,
          log |-> <<"generate", "save">> ]

\* self.storage.save(project); return project -- the tail of a service method
\* called with argument arg, after the steps log.
SaveAndReturn(files, updated, arg, log) ==
    [files |-> Save(files, updated), ret |-> updated, arg |-> arg, log |-> log]

\* replace(project, scenes=scenes, script_summary=_summarize_scenes(scenes))
WithScript(project, scenes) ==
    [project EXCEPT !.scenes = scenes, !.script_summary = Some(SummarizeScenes(scenes))]

\* ProjectService.generate_script
GenerateScript(files, project) ==
    SaveAndReturn(files,
                  WithScript(project, Generate(project.brief, project.duration_minutes)),
                  project, <<"generate", "save">>)

\* Variant of DesignStoryboard: no script is generated when there are no scenes.
DesignStoryboardNoScript(files, project) ==
    LET updated == [project EXCEPT !.scenes = Design(project.scenes),
                                   !.storyboard_ready = TRUE]
    IN  [ files |-> Save(files, updated), ret |-> updated, arg |-> project,
          log |-> <<"design", "save">> ]

\* design_storyboard from line 68 on; scripted is the outcome of the optional
\* generate_script step before it.
DesignScripted(scripted) ==
    SaveAndReturn(scripted.files,
                  [scripted.ret EXCEPT !.scenes = Design(scripted.ret.scenes),
                                       !.storyboard_ready = TRUE],
                  scripted.arg, scripted.log \o <<"design", "save">>)

\* ProjectService.design_storyboard
DesignStoryboard(files, project) ==
    DesignScripted(IF project.scenes = <<>>
                   THEN GenerateScript(files, project)
                   ELSE [files |-> files, ret |-> project, arg |-> project, log |-> <<>>])

\* Variant of RenderPreview: the preview is written without the storyboard step.
RenderPreviewNoCascade(files, project, destination) ==
    LET path == IF destination # None THEN destination[1]
                ELSE [dir |-> "home", name |-> project.project_id \o PreviewJson]
        written == WriteText(files, path, Dumps(BuildPreviewPayload(project)))
        updated == [project EXCEPT !.preview_ready = TRUE]
    IN  IF ~CanWrite(path)
        THEN [ files |-> files, ret |-> None, arg |-> project, path |-> None,
               err |-> "IOError", log |-> <<"write_failed">> ]
        ELSE [ files |-> Save(written, updated), ret |-> Some(updated), arg |-> project,
               path |-> Some(path), err |-> "", log |-> <<"write_preview", "save">> ]

\* destination or self.storage.home / f"{project.project_id}_preview.json"
Destination(project, destination) ==
    IF destination # None THEN destination[1]
    ELSE [dir |-> "home", name |-> project.project_id \o PreviewJson]

\* render_preview from line 76 on; designed is the outcome of the optional
\* design_storyboard step before it and path the destination.  err is "" when
\* the call returns; ret is then the project the last save stored.
RenderDesigned(designed, path) ==
    IF ~CanWrite(path)
    THEN [ files |-> designed.files, ret |-> None, arg |-> designed.arg,
           path |-> None, err |-> "IOError",
           log |-> designed.log \o <<"write_failed">> ]
    ELSE [ files |-> Save(WriteText(designed.files, path,
                                    Dumps(BuildPreviewPayload(designed.ret))),
                          [designed.ret EXCEPT !.preview_ready = TRUE]),
           ret |-> Some([designed.ret EXCEPT !.preview_ready = TRUE]),
           arg |-> designed.arg, path |-> Some(path), err |-> "",
           log |-> designed.log \o <<"write_preview", "save">> ]

\* The destination is computed from the project after the optional step; that
\* step keeps project_id.
RenderPreview(files, project, destination) ==
    RenderDesigned(IF ~project.storyboard_ready
                   THEN DesignStoryboard(files, project)
                   ELSE [files |-> files, ret |-> project, arg |-> project, log |-> <<>>],
                   Destination(project, destination))

(***************************************************************************)
(* The state machine: one storage home, one ProjectService, one caller.    *)
(***************************************************************************)
VARIABLES
    fs,      \* the files: a function from paths to their JSON text
    held,    \* the Project values the caller keeps (returned or loaded earlier)
    last,    \* the last call: its name, argument, result, error and steps
    clock    \* the clock datetime.utcnow() reads

vars == <<fs, held, last, clock>>

\* uuid.uuid4().hex[:12], shortened to two hex characters.
ProjectIds == { <<"a", "b">>, <<"a", "1">> }

Titles == {"Morning Routine Hacks"}
Tones == {"upbeat"}
Audiences == {"busy professionals"}
Briefs ==
    { <<"Share", " ", "tips", ".", " ", "Focus", "\n", "now", ".">>,
      <<"\n", ".", " ">> }
Durations == {2, 4}

\* The project worked on in Spec and SpecGen.
OneProject == { <<"a", "b">> }

\* The inputs of SpecHome, where several projects share the home directory.
HomeBriefs == { <<"Share", " ", "tips", ".", " ", "Focus", "\n", "now", ".">> }
HomeDurations == {2}

\* The destination argument of render_preview: omitted (the default file in
\* the home directory), or a file in a directory that does not exist.
Destinations ==
    { None,
      Some([dir |-> "missing", name |-> <<"p", "r", "e", "v", "i", "e", "w">> \o DotJson]) }

NoCall ==
    [ op |-> "none", arg |-> None, argAfter |-> None, ret |-> <<>>, path |-> None,
      err |-> "", log |-> <<>> ]

\* What the caller may keep after a call returned project: nothing new, the
\* result in place of a value it held, or the result beside them.
Keep(values, project) ==
    {values} \cup { (values \ {q}) \cup {project} : q \in values }
             \cup (IF Cardinality(values) < MaxHeld THEN {values \cup {project}} ELSE {})

\* How many times the scenes of a project went through the designer.
Restyles(project) ==
    IF project.scenes = <<>> \/ project.scenes[1].thumbnail_description = None
    THEN 0
    ELSE Len(SelectSeq(project.scenes[1].thumbnail_description[1],
                       LAMBDA tok : tok = "Shot suggestion:"))

Init ==
    /\ fs = [q \in {} |-> <<>>]
    /\ held = {}
    /\ last = NoCall
    /\ clock = 0

\* create_project with a fresh id.
DoCreateProject(ids, briefs, durations) ==
    \E id \in ids, title \in Titles, brief \in briefs, tone \in Tones,
       audience \in Audiences, duration \in durations :
        /\ PathFor(id) \notin DOMAIN fs
        /\ LET r == CreateProject(fs, id, title, brief, tone, audience, duration, clock + 1)
           IN  /\ fs' = r.files
               /\ held' \in Keep(held, r.ret)
               /\ last' = [NoCall EXCEPT !.op = "create_project", !.ret = <<r.ret>>,
                                         !.log = r.log]
        /\ clock' = clock + 1

\* load_project(project_id)
DoLoadProject ==
    \E id \in ProjectIds :
        LET r == Load(fs, id, clock)
        IN  /\ fs' = fs
            /\ held' \in (IF r.err = "" THEN Keep(held, r.ret[1]) ELSE {held})
            /\ last' = [NoCall EXCEPT !.op = "load_project", !.ret = r.ret, !.err = r.err,
                                      !.path = Some(PathFor(id))]
            /\ clock' = clock

\* The call op(project) returned r.ret: the files are as the call left them,
\* the caller's argument object is r.arg, and the caller keeps the result or not.
Returned(op, project, r) ==
    /\ fs' = r.files
    /\ held' \in Keep((held \ {project}) \cup {r.arg}, r.ret)
    /\ last' = [NoCall EXCEPT !.op = op, !.arg = Some(project),
                              !.argAfter = Some(r.arg), !.ret = <<r.ret>>,
                              !.log = r.log]
    /\ clock' = clock

\* generate_script(project)
DoGenerateScript ==
    \E project \in held : Returned("generate_script", project, GenerateScript(fs, project))

\* design_storyboard(project)
DoDesignStoryboard ==
    \E project \in held :
        /\ Restyles(project) < MaxRestyle
        /\ Returned("design_storyboard", project, DesignStoryboard(fs, project))

\* The call render_preview(project, ...) ended as r says.
Rendered(project, r) ==
    /\ fs' = r.files
    /\ held' = (held \ {project}) \cup {r.arg}
    /\ last' = [NoCall EXCEPT !.op = "render_preview", !.arg = Some(project),
                              !.argAfter = Some(r.arg), !.ret = r.ret,
                              !.path = r.path, !.err = r.err, !.log = r.log]
    /\ clock' = clock

\* render_preview(project, destination=...): it returns a path, so the caller
\* still holds the project it passed.
DoRenderPreview(destinations) ==
    \E project \in held, destination \in destinations :
        Rendered(project, RenderPreview(fs, project, destination))

\* list_projects(), read to its end.
DoListProjects ==
    LET r == ListProjects(fs, clock)
    IN  /\ last' = [NoCall EXCEPT !.op = "list_projects", !.ret = r.ret, !.err = r.err]
        /\ UNCHANGED <<fs, held, clock>>

\* Spec: one project, every input.
Next ==
    \/ DoCreateProject(OneProject, Briefs, Durations)
    \/ DoLoadProject
    \/ DoGenerateScript
    \/ DoDesignStoryboard
    \/ DoRenderPreview(Destinations)
    \/ DoListProjects

Spec == Init /\ [][Next]_vars

\* SpecHome: several projects in one home directory.
NextHome ==
    \/ DoCreateProject(ProjectIds, HomeBriefs, HomeDurations)
    \/ DoLoadProject
    \/ DoGenerateScript
    \/ DoDesignStoryboard
    \/ DoRenderPreview(Destinations)
    \/ DoListProjects

SpecHome == Init /\ [][NextHome]_vars

(***************************************************************************)
(* SpecGen: the generation steps on one freshly created project, for every *)
(* duration_minutes in 1..MaxDuration.                                     *)
(***************************************************************************)
InitGen ==
    \E id \in OneProject, title \in Titles, brief \in Briefs, tone \in Tones,
       audience \in Audiences, duration \in 1..MaxDuration :
        LET r == CreateProject([q \in {} |-> <<>>], id, title, brief, tone, audience,
                               duration, 1)
        IN  /\ fs = r.files
            /\ held = {r.ret}
            /\ last = [NoCall EXCEPT !.op = "create_project", !.ret = <<r.ret>>,
                                     !.log = r.log]
            /\ clock = 1

NextGen ==
    \/ DoGenerateScript
    \/ DoDesignStoryboard

SpecGen == InitGen /\ [][NextGen]_vars

(***************************************************************************)
(* SpecScript: generate_script on one freshly created project, for every   *)
(* brief of at most MaxBriefLen tokens, a brief of eleven sentences and    *)
(* the brief of the test suite.                                            *)
(***************************************************************************)
BriefTokens == {"a", "b", " ", "\n", "."}

LongBrief ==
    [i \in 1..22 |-> IF i % 2 = 0 THEN "." ELSE IF i % 4 = 1 THEN "a" ELSE "b"]

ScriptBriefs ==
    UNION {[1..n -> BriefTokens] : n \in 0..MaxBriefLen} \cup Briefs \cup {LongBrief}

InitScript ==
    \E id \in OneProject, title \in Titles, brief \in ScriptBriefs, tone \in Tones,
       audience \in Audiences, duration \in 1..MaxScriptDuration :
        LET r == CreateProject([q \in {} |-> <<>>], id, title, brief, tone, audience,
                               duration, 1)
        IN  /\ fs = r.files
            /\ held = {r.ret}
            /\ last = [NoCall EXCEPT !.op = "create_project", !.ret = <<r.ret>>,
                                     !.log = r.log]
            /\ clock = 1

NextScript == DoGenerateScript

SpecScript == InitScript /\ [][NextScript]_vars

(***************************************************************************)
(* Properties.                                                             *)
(***************************************************************************)
HasProject(files, id) == PathFor(id) \in DOMAIN files

\* The record storage holds for id, as load(id) returns it.
StoredIn(files, id) == Load(files, id, 0).ret[1]
Stored(id) == StoredIn(fs, id)

\* Every Project value in sight: held by the caller, persisted, or returned by
\* or passed to the last call.
AllProjects ==
    held \cup {Stored(id) : id \in {i \in ProjectIds : HasProject(fs, i)}}
         \cup {last.ret[i] : i \in 1..Len(last.ret)}
         \cup {last.arg[i] : i \in 1..Len(last.arg)}

Fresh(project) ==
    project.scenes = <<>> /\ ~project.storyboard_ready /\ ~project.preview_ready

Alternating(scenes) ==
    \A i \in 1..Len(scenes) :
        /\ (scenes[i].aspect_ratio = "16:9") <=> ((i - 1) % 2 = 0)
        /\ (scenes[i].aspect_ratio = "9:16") <=> ((i - 1) % 2 = 1)

\* C1: for every project id, once the persisted storyboard_ready (preview_ready)
\* flag is true, no later service call stores it as false.
C1_FlagsOnlyMoveForward ==
    [][\A id \in ProjectIds :
          HasProject(fs, id) =>
              /\ HasProject(fs', id)
              /\ StoredIn(fs, id).storyboard_ready => StoredIn(fs', id).storyboard_ready
              /\ StoredIn(fs, id).preview_ready => StoredIn(fs', id).preview_ready]_vars

\* C2: every Project value returned by the service or persisted satisfies
\* preview_ready => storyboard_ready and storyboard_ready => scenes non-empty.
C2_ReadinessInvariant ==
    \A project \in AllProjects :
        /\ project.preview_ready => project.storyboard_ready
        /\ project.storyboard_ready => project.scenes # <<>>

C2_Witness ==
    \E id \in ProjectIds :
        /\ HasProject(fs, id)
        /\ Stored(id).preview_ready
        /\ Stored(id).storyboard_ready
        /\ Stored(id).scenes # <<>>

\* C3: design_storyboard applied to the project a design_storyboard call
\* returned yields scenes identical in every field to the ones it was given.
C3_DesignIdempotent ==
    (last.op = "design_storyboard") =>
        DesignStoryboard(fs, last.ret[1]).ret.scenes = last.ret[1].scenes

\* C4: every project with scenes and storyboard_ready true has aspect ratio
\* "16:9" on its even scenes and "9:16" on its odd ones.
C4_AlternatingAspectRatios ==
    \A project \in AllProjects :
        (project.storyboard_ready /\ project.scenes # <<>>) => Alternating(project.scenes)

\* The persisted projects in lexicographic order of project id.
RECURSIVE PersistedInOrder(_)
PersistedInOrder(ids) ==
    IF ids = {} THEN <<>>
    ELSE LET least == CHOOSE i \in ids : \A j \in ids \ {i} : LexLess(i, j)
         IN  <<Stored(least)>> \o PersistedInOrder(ids \ {least})

\* C5: list_projects() completes without error and yields exactly the
\* persisted projects, one per project id, in lexicographic order of id.
C5_ListProjects ==
    (last.op = "list_projects") =>
        /\ last.err = ""
        /\ last.ret = PersistedInOrder({i \in ProjectIds : HasProject(fs, i)})

\* C6: render_preview on a fresh project runs generate_script, then
\* design_storyboard, then writes the preview; when it returns the persisted
\* project has non-empty storyboarded scenes and both flags true.
C6_RenderCascade ==
    (last.op = "render_preview" /\ last.err = "" /\ Fresh(last.arg[1])) =>
        /\ last.log = <<"generate", "save", "design", "save", "write_preview", "save">>
        /\ HasProject(fs, last.arg[1].project_id)
        /\ LET stored == Stored(last.arg[1].project_id)
           IN  /\ stored.scenes # <<>>
               /\ Alternating(stored.scenes)
               /\ \A i \in 1..Len(stored.scenes) :
                      Restyles([stored EXCEPT !.scenes = <<stored.scenes[i]>>]) = 1
               /\ stored.storyboard_ready
               /\ stored.preview_ready

C6_Witness ==
    /\ last.op = "render_preview"
    /\ last.err = ""
    /\ Fresh(last.arg[1])
    /\ last.path # None
    /\ last.path[1] \in DOMAIN fs

\* C7: every service mutation is persisted before it returns: load of the
\* returned project's id yields a project equal to it in every field; after
\* render_preview the stored record is the cascaded project with
\* preview_ready true.
C7_PersistedBeforeReturn ==
    /\ (last.op \in {"create_project", "generate_script", "design_storyboard"}) =>
           Load(fs, last.ret[1].project_id, clock) = [err |-> "", ret |-> <<last.ret[1]>>]
    /\ (last.op = "render_preview" /\ last.err = "") =>
           LET given == last.arg[1]
               cascaded == IF given.storyboard_ready THEN given
                           ELSE DesignStoryboard(fs, given).ret
           IN  Load(fs, given.project_id, clock) =
                   [err |-> "", ret |-> <<[cascaded EXCEPT !.preview_ready = TRUE]>>]

C7_Witness ==
    /\ last.op = "render_preview"
    /\ last.err = ""
    /\ ~last.arg[1].storyboard_ready
    /\ last.arg[1].scenes # <<>>
    /\ Stored(last.arg[1].project_id).script_summary # None

\* The least integer not below 1.5 * d.
CeilOfOneAndHalfTimes(d) == CHOOSE n \in 0..(2 * d) : 2 * n >= 3 * d /\ 2 * (n - 1) < 3 * d

Clamp(n, lo, hi) == IF n < lo THEN lo ELSE IF n > hi THEN hi ELSE n

\* C8: for duration_minutes in 1..100 generate_script produces exactly
\* clamp(ceil(duration_minutes * 1.5), 3, 6) scenes, and the scene at
\* position k has index k (from 0).
C8_SceneCount ==
    (last.op = "generate_script") =>
        LET scenes == last.ret[1].scenes
        IN  /\ Len(scenes) = Clamp(CeilOfOneAndHalfTimes(last.arg[1].duration_minutes), 3, 6)
            /\ Len(scenes) \in 3..6
            /\ \A k \in 0..(Len(scenes) - 1) : scenes[k + 1].index = k

C8_Witness ==
    /\ last.op = "generate_script"
    /\ last.arg[1].duration_minutes = 3
    /\ Len(last.ret[1].scenes) = 5

FrameFields ==
    { "storyboard_ready", "preview_ready", "project_id", "title", "brief", "tone",
      "target_audience", "duration_minutes", "created_at" }

\* C9: generate_script changes only scenes and script_summary: the returned
\* and the persisted project agree with the input on every other field, and
\* the input Project value is not mutated.
C9_GenerateScriptFrame ==
    (last.op = "generate_script") =>
        /\ \A f \in FrameFields :
               /\ last.ret[1][f] = last.arg[1][f]
               /\ Stored(last.arg[1].project_id)[f] = last.arg[1][f]
        /\ last.argAfter = last.arg

C9_Witness ==
    /\ last.op = "generate_script"
    /\ last.arg[1].storyboard_ready
    /\ last.arg[1].preview_ready
    /\ last.ret[1].scenes # last.arg[1].scenes

\* C10: load of an id with no stored file fails with a not-found error,
\* returns no project, and leaves the files unchanged.
C10_LoadMissing ==
    [][(last'.op = "load_project" /\ last'.path[1] \notin DOMAIN fs) =>
          /\ last'.err = "NotFound"
          /\ last'.ret = None
          /\ fs' = fs
          /\ held' = held]_vars

C10_Witness ==
    /\ last.op = "load_project"
    /\ last.err = "NotFound"
    /\ \E id \in ProjectIds : HasProject(fs, id)

\* The period-separated segments of text, by position: a segment starts at 1
\* or right after a period and runs up to the next period or the end.
SegmentStarts(text) == {1} \cup {i + 1 : i \in {j \in 1..Len(text) : text[j] = "."}}

SegmentAt(text, start) ==
    LET stops == {j \in start..Len(text) : text[j] = "."}
        stop == IF stops = {} THEN Len(text) + 1
                ELSE CHOOSE j \in stops : \A k \in stops : j <= k
    IN  SubSeq(text, start, stop - 1)

\* A segment without its surrounding whitespace.
Trimmed(segment) ==
    LET inked == {j \in 1..Len(segment) : segment[j] \notin {" ", "\n"}}
    IN  IF inked = {} THEN <<>>
        ELSE SubSeq(segment,
                    CHOOSE j \in inked : \A k \in inked : j <= k,
                    CHOOSE j \in inked : \A k \in inked : j >= k)

\* The trimmed non-empty period-separated segments of the brief, at most 10.
SentenceList(brief) ==
    LET starts == SegmentStarts(brief)
        nth(k) == CHOOSE t \in starts : Cardinality({u \in starts : u < t}) = k - 1
        all == [k \in 1..Cardinality(starts) |-> Trimmed(SegmentAt(brief, nth(k)))]
        kept == SelectSeq(all, LAMBDA seg : seg # <<>>)
    IN  SubSeq(kept, 1, IF Len(kept) > 10 THEN 10 ELSE Len(kept))

\* The scenes are built from arc (i mod 6) and sentence (i mod count) of sentences.
BuiltFrom(scenes, sentences) ==
    \A i \in 0..(Len(scenes) - 1) :
        LET arc == (i % 6) + 1
            sentence == sentences[(i % Len(sentences)) + 1]
            scene == scenes[i + 1]
        IN  /\ scene.summary = Fill(<<Arcs[arc], ":", " ">> \o sentence)
            /\ scene.title = <<"Scene ", ToString(i + 1), ":", " ", ArcKeywords[arc]>>
            /\ scene.thumbnail_description # None
            /\ scene.thumbnail_description[1][1] = ArcLower[arc]
            /\ Words(SubSeq(scene.thumbnail_description[1], 4,
                            Len(scene.thumbnail_description[1])))
                   = SubSeq(Words(sentence), 1,
                            IF Len(Words(sentence)) > 6 THEN 6 ELSE Len(Words(sentence)))

\* C11 as stated: scene i is built from arc (i mod 6) and sentence
\* (i mod sentence_count) of the sentence list of the brief; when the list is
\* empty the brief itself is the single sentence of every scene.
C11_BriefIsFallback ==
    (last.op = "generate_script") =>
        BuiltFrom(last.ret[1].scenes,
                  IF SentenceList(last.arg[1].brief) = <<>>
                  THEN <<last.arg[1].brief>>
                  ELSE SentenceList(last.arg[1].brief))

\* C11, amended: scene i is built from arc (i mod 6) and sentence
\* (i mod sentence_count) of the sentence list of the brief; when the list is
\* empty the fixed sentence "Introduce the topic in an engaging manner" is the
\* single sentence of every scene.
C11_ScenesFromArcsAndSentences ==
    (last.op = "generate_script") =>
        BuiltFrom(last.ret[1].scenes,
                  IF SentenceList(last.arg[1].brief) = <<>>
                  THEN << <<"Introduce", " ", "the", " ", "topic", " ", "in", " ", "an",
                            " ", "engaging", " ", "manner">> >>
                  ELSE SentenceList(last.arg[1].brief))

\* The fallback case and the wrap-around case have both happened.
C11_Witness ==
    /\ last.op = "generate_script"
    /\ last.arg[1].brief # <<>>
    /\ SentenceList(last.arg[1].brief) = <<>>
    /\ Len(last.ret[1].scenes) = 6
    /\ last.ret[1].scenes[6].summary[4] = "Introduce"

\* The last step was a call of render_preview on the project id.
RenderStep(id) ==
    /\ last'.op = "render_preview"
    /\ last'.arg[1].project_id = id

\* A render_preview step after which the stored preview_ready is true, and was
\* not before, has written the preview file and then saved the project.
ReadyOnlyAfterWrite(id) ==
    (/\ RenderStep(id)
     /\ StoredIn(fs', id).preview_ready
     /\ ~StoredIn(fs, id).preview_ready) =>
        /\ last'.err = ""
        /\ last'.path # None
        /\ last'.path[1] \in DOMAIN fs'
        /\ Len(last'.log) >= 2
        /\ SubSeq(last'.log, Len(last'.log) - 1, Len(last'.log)) = <<"write_preview", "save">>
        /\ \A i \in 1..(Len(last'.log) - 2) : last'.log[i] # "write_preview"

\* A render_preview whose write failed stored what its cascade steps stored
\* and nothing else, and no record with preview_ready true.
FailedRenderStoresNoReady(id) ==
    (RenderStep(id) /\ last'.err # "") =>
        /\ last'.ret = None
        /\ "write_preview" \notin {last'.log[i] : i \in 1..Len(last'.log)}
        /\ fs' = IF last'.arg[1].storyboard_ready THEN fs
                 ELSE DesignStoryboard(fs, last'.arg[1]).files
        /\ (fs' # fs) => ~StoredIn(fs', id).preview_ready

\* A render_preview whose write failed leaves the stored preview_ready as it was.
FailedRenderKeepsReady(id) ==
    (RenderStep(id) /\ last'.err # "") =>
        (StoredIn(fs', id).preview_ready = StoredIn(fs, id).preview_ready)

\* C12: in render_preview the persisted preview_ready becomes true only after
\* the preview file of the project has been written; when writing the preview
\* file fails the call stores no preview_ready = true, and the stored record is
\* what the cascade steps persisted, with preview_ready unchanged.
C12_RenderOrdering ==
    [][\A id \in ProjectIds :
          HasProject(fs, id) =>
              /\ ReadyOnlyAfterWrite(id)
              /\ FailedRenderStoresNoReady(id)
              /\ FailedRenderKeepsReady(id)]_vars

=============================================================================
